---- MODULE Spec2Model ----
(***************************************************************************)
(* Model of src/index.ts of action-setup-taskfile: the run() orchestrator  *)
(* and its helpers getPlatformInfo, getLatestVersion, normalizeVersion,    *)
(* getDownloadUrl, downloadAndExtract and verifyInstallation.              *)
(*                                                                         *)
(* Strings are sequences of one-character strings, so that the regular     *)
(* expression /^v/ and toLowerCase() are computed, not assumed.  URLs,     *)
(* paths and messages are sequences of string fragments whose              *)
(* concatenation is the program's string.                                  *)
(*                                                                         *)
(* The toolkit collaborators (tool cache, downloader, extractor, release   *)
(* registry, PATH, process spawn) are the environment: each call either    *)
(* throws or returns.  The tool cache is a map from version key to         *)
(* directory, kept across runs.                                            *)
(***************************************************************************)
EXTENDS Naturals, Sequences, FiniteSets

\* ---------------------------------------------------------------- bounds
\* the longest run of leading "v" characters in an input or a tag
MaxLeadingV == 2
\* the number of runs of the action on one runner
MaxRuns == 2

\* ------------------------------------------------------------- constants
TOOL_NAME == "task"
REPO_OWNER == "go-task"
REPO_NAME == "task"

\* --------------------------------------------------------------- strings
LATEST == <<"l", "a", "t", "e", "s", "t">>

\* k times the character "v"
Vs(k) == [i \in 1..k |-> "v"]

\* what follows the leading "v" characters of an input
Bodies == {<<>>, <<"1">>}

\* values core.getInput('version') can return (the empty string when the
\* input is absent)
VersionInputs ==
    {Vs(k) \o b : k \in 0..MaxLeadingV, b \in Bodies}
        \cup {LATEST, <<"L", "A", "T", "E", "S", "T">>, <<"v">> \o LATEST}

\* values core.getInput('github-token') can return
Tokens == {"", "ghs_token"}

\* tag names the release registry can return
Tags == {Vs(k) \o <<"1">> : k \in 0..MaxLeadingV} \cup {<<"v">>}

\* values of os.platform() and os.arch()
HostPlatforms == {"linux", "darwin", "win32", "freebsd", "sunos"}
HostArchs == {"x64", "arm64", "arm", "ia32", "mips"}

LowerChar(c) ==
    CASE c = "L" -> "l"
      [] c = "A" -> "a"
      [] c = "T" -> "t"
      [] c = "E" -> "e"
      [] c = "S" -> "s"
      [] c = "V" -> "v"
      [] OTHER -> c

toLowerCase(s) == [i \in 1..Len(s) |-> LowerChar(s[i])]

\* s.replace(/^v/, '')
ReplaceLeadingV(s) == IF Len(s) > 0 /\ s[1] = "v" THEN Tail(s) ELSE s

\* ------------------------------------------------------ pure functions
NoPlatform == [os |-> "", arch |-> "", ext |-> ""]

\* getPlatformInfo with a default architecture instead of the throw
getPlatformInfo_DefaultArch(platform, arch) ==
    LET osPart ==
            CASE platform = "linux" -> [ok |-> TRUE, os |-> "linux", ext |-> "tar.gz"]
              [] platform = "darwin" -> [ok |-> TRUE, os |-> "darwin", ext |-> "tar.gz"]
              [] platform = "win32" -> [ok |-> TRUE, os |-> "windows", ext |-> "zip"]
              [] platform = "freebsd" -> [ok |-> TRUE, os |-> "freebsd", ext |-> "tar.gz"]
              [] OTHER -> [ok |-> FALSE, os |-> "", ext |-> ""]
        taskArch ==
            CASE arch = "arm64" -> "arm64"
              [] arch = "arm" -> "arm"
              [] arch = "ia32" -> "386"
              [] OTHER -> "amd64"
    IN  IF ~osPart.ok
        THEN [ok |-> FALSE, info |-> NoPlatform,
              message |-> <<"Unsupported platform: ", platform>>]
        ELSE [ok |-> TRUE,
              info |-> [os |-> osPart.os, arch |-> taskArch, ext |-> osPart.ext],
              message |-> <<>>]

getPlatformInfo(platform, arch) ==
    LET osPart ==
            CASE platform = "linux" -> [ok |-> TRUE, os |-> "linux", ext |-> "tar.gz"]
              [] platform = "darwin" -> [ok |-> TRUE, os |-> "darwin", ext |-> "tar.gz"]
              [] platform = "win32" -> [ok |-> TRUE, os |-> "windows", ext |-> "zip"]
              [] platform = "freebsd" -> [ok |-> TRUE, os |-> "freebsd", ext |-> "tar.gz"]
              [] OTHER -> [ok |-> FALSE, os |-> "", ext |-> ""]
        archPart ==
            CASE arch = "x64" -> [ok |-> TRUE, arch |-> "amd64"]
              [] arch = "arm64" -> [ok |-> TRUE, arch |-> "arm64"]
              [] arch = "arm" -> [ok |-> TRUE, arch |-> "arm"]
              [] arch = "ia32" -> [ok |-> TRUE, arch |-> "386"]
              [] OTHER -> [ok |-> FALSE, arch |-> ""]
    IN  IF ~osPart.ok
        THEN [ok |-> FALSE, info |-> NoPlatform,
              message |-> <<"Unsupported platform: ", platform>>]
        ELSE IF ~archPart.ok
        THEN [ok |-> FALSE, info |-> NoPlatform,
              message |-> <<"Unsupported architecture: ", arch>>]
        ELSE [ok |-> TRUE,
              info |-> [os |-> osPart.os, arch |-> archPart.arch, ext |-> osPart.ext],
              message |-> <<>>]

\* the comparison without toLowerCase()
IsLatest_CaseSensitive(input) == input = LATEST

\* run(): versionInput.toLowerCase() === 'latest'
IsLatest(input) == toLowerCase(input) = LATEST

\* the replace with a global pattern: every leading "v" is removed
RECURSIVE normalizeVersion_StripAll(_)
normalizeVersion_StripAll(version) ==
    IF Len(version) > 0 /\ version[1] = "v"
    THEN normalizeVersion_StripAll(Tail(version))
    ELSE version

\* the input passed through unchanged
normalizeVersion_Identity(version) == version

normalizeVersion(version) == ReplaceLeadingV(version)

\* the value getLatestVersion returns for a release with this tag_name
getLatestVersion(tag_name) == ReplaceLeadingV(tag_name)

\* the URL without the "v" before the version
getDownloadUrl_NoVPrefix(version, platformInfo) ==
    <<"https://github.com/", REPO_OWNER, "/", REPO_NAME, "/releases/download/">>
        \o version
        \o <<"/task_", platformInfo.os, "_", platformInfo.arch, ".", platformInfo.ext>>

getDownloadUrl(version, platformInfo) ==
    <<"https://github.com/", REPO_OWNER, "/", REPO_NAME, "/releases/download/v">>
        \o version
        \o <<"/task_", platformInfo.os, "_", platformInfo.arch, ".", platformInfo.ext>>

\* the directory tc.cacheDir registers for (tool, version)
CachedPath(tool, version) == <<"toolcache/", tool, "/">> \o version

\* cacheHit.toString()
BoolToString(b) == IF b THEN "true" ELSE "false"

\* ------------------------------------------------------------------ state
VARIABLES
    hostPlatform,   \* os.platform() of the runner
    hostArch,       \* os.arch() of the runner
    cache,          \* tool cache: version key -> directory (tool is TOOL_NAME)
    PATH,           \* directories added to the job's search path
    runs,           \* number of runs started
    pc,             \* position of the current run
    rawVersion,     \* run(): core.getInput('version')
    versionInput,   \* run(): versionInput
    token,          \* run(): token
    platformInfo,   \* run(): platformInfo
    release,        \* getLatestVersion(): release.tag_name ("" before the query)
    version,        \* run(): version
    toolPath,       \* run(): toolPath
    cacheHit,       \* run(): cacheHit
    downloadUrl,    \* run(): downloadUrl
    log,            \* collaborator calls of the current run, in order
    outputs,        \* outputs set by the current run: name -> value
    failed,         \* messages passed to core.setFailed in the current run
    unverified      \* history: keys cached by a run whose verification failed

vars == <<hostPlatform, hostArch, cache, PATH, runs, pc, rawVersion,
          versionInput, token, platformInfo, release, version, toolPath,
          cacheHit, downloadUrl, log, outputs, failed, unverified>>

\* what no step of a run changes
env == <<hostPlatform, hostArch, runs, rawVersion, versionInput, token>>

NoOutputs == [n \in {} |-> <<>>]

Call(op, arg) == [op |-> op, arg |-> arg]

\* errors a collaborator can throw: an Error with a message, or another value
Thrown == {[isError |-> TRUE, message |-> <<"collaborator error">>],
           [isError |-> FALSE, message |-> <<>>]}

\* run(): the catch block
setFailedMessage(error) ==
    IF error.isError THEN error.message ELSE <<"An unexpected error occurred">>

Init ==
    /\ hostPlatform \in HostPlatforms
    /\ hostArch \in HostArchs
    /\ cache = [k \in {} |-> <<>>]
    /\ PATH = {}
    /\ runs = 0
    /\ pc = "idle"
    /\ rawVersion = <<>>
    /\ versionInput = <<>>
    /\ token = ""
    /\ platformInfo = NoPlatform
    /\ release = <<>>
    /\ version = <<>>
    /\ toolPath = <<>>
    /\ cacheHit = FALSE
    /\ downloadUrl = <<>>
    /\ log = <<>>
    /\ outputs = NoOutputs
    /\ failed = <<>>
    /\ unverified = {}


\* ---------------------------------------------------------------- actions
\* the catch block with its "else" lost: both setFailed calls are made
Catch_BothBranches(error) ==
    /\ pc' = "failed"
    /\ failed' = failed \o <<error.message, <<"An unexpected error occurred">> >>

\* run(): an exception reaches the catch block, which calls core.setFailed
Catch(error) ==
    /\ pc' = "failed"
    /\ failed' = Append(failed, setFailedMessage(error))

Error(message) == [isError |-> TRUE, message |-> message]

Logged(op, arg) == log' = Append(log, Call(op, arg))

\* the action is started: run() reads its inputs
StartRun ==
    /\ pc \in {"idle", "succeeded", "failed"}
    /\ runs < MaxRuns
    /\ runs' = runs + 1
    /\ \E raw \in VersionInputs, tok \in Tokens :
          /\ rawVersion' = raw
          /\ versionInput' = (IF raw = <<>> THEN LATEST ELSE raw)
          /\ token' = tok
    /\ platformInfo' = NoPlatform
    /\ release' = <<>>
    /\ version' = <<>>
    /\ toolPath' = <<>>
    /\ cacheHit' = FALSE
    /\ downloadUrl' = <<>>
    /\ log' = <<>>
    /\ outputs' = NoOutputs
    /\ failed' = <<>>
    /\ pc' = "start"
    /\ UNCHANGED <<hostPlatform, hostArch, cache, PATH, unverified>>

\* run(): const platformInfo = getPlatformInfo()
ResolvePlatform ==
    /\ pc = "start"
    /\ LET r == getPlatformInfo(hostPlatform, hostArch)
       IN  \/ /\ r.ok
              /\ platformInfo' = r.info
              /\ pc' = "platformResolved"
              /\ UNCHANGED failed
           \/ /\ ~r.ok
              /\ Catch(Error(r.message))
              /\ UNCHANGED platformInfo
    /\ UNCHANGED <<env, release, cache, PATH, version,
                   toolPath, cacheHit, downloadUrl, log, outputs, unverified>>

\* run(): version = normalizeVersion(versionInput)
ResolveExplicit ==
    /\ pc = "platformResolved"
    /\ ~IsLatest(versionInput)
    /\ version' = normalizeVersion(versionInput)
    /\ pc' = "versionResolved"
    /\ UNCHANGED <<env, release, cache, PATH, platformInfo,
                   toolPath, cacheHit, downloadUrl, log, outputs, failed, unverified>>

\* run(): version = await getLatestVersion(token)
\* github.getOctokit throws on an empty token, outside the try of
\* getLatestVersion; a failure of the registry query is wrapped.
ResolveLatest ==
    /\ pc = "platformResolved"
    /\ IsLatest(versionInput)
    /\ \/ /\ token = ""
          /\ Catch(Error(<<"Parameter token or opts.auth is required">>))
          /\ UNCHANGED <<release, version, log>>
       \/ /\ token # ""
          /\ Logged("getLatestRelease", <<token, REPO_OWNER, REPO_NAME>>)
          /\ \/ \E tag_name \in Tags :
                   /\ release' = tag_name
                   /\ version' = getLatestVersion(tag_name)
                   /\ pc' = "versionResolved"
                   /\ UNCHANGED failed
             \/ \E e \in Thrown :
                   /\ Catch(Error(<<"Failed to fetch latest version: ">>
                                      \o setFailedMessage(e)))
                   /\ UNCHANGED <<release, version>>
    /\ UNCHANGED <<env, cache, PATH, platformInfo,
                   toolPath, cacheHit, downloadUrl, outputs, unverified>>

\* the lookup that treats a cached tool as already verified
CacheFind_SkipVerify ==
    /\ pc = "versionResolved"
    /\ Logged("find", <<TOOL_NAME>> \o version)
    /\ \/ /\ version \in DOMAIN cache
          /\ toolPath' = cache[version]
          /\ cacheHit' = TRUE
          /\ pc' = "verified"
          /\ UNCHANGED <<downloadUrl, failed>>
       \/ /\ version \notin DOMAIN cache
          /\ downloadUrl' = getDownloadUrl(version, platformInfo)
          /\ pc' = "download"
          /\ UNCHANGED <<toolPath, cacheHit, failed>>
       \/ \E e \in Thrown :
             /\ Catch(e)
             /\ UNCHANGED <<toolPath, cacheHit, downloadUrl>>
    /\ UNCHANGED <<env, release, cache, PATH, platformInfo, version, outputs,
                   unverified>>

\* the lookup whose result is not tested: a hit is downloaded again
CacheFind_AlwaysDownload ==
    /\ pc = "versionResolved"
    /\ Logged("find", <<TOOL_NAME>> \o version)
    /\ \/ /\ toolPath' = (IF version \in DOMAIN cache THEN cache[version] ELSE <<>>)
          /\ cacheHit' = (version \in DOMAIN cache)
          /\ downloadUrl' = getDownloadUrl(version, platformInfo)
          /\ pc' = "download"
          /\ UNCHANGED failed
       \/ \E e \in Thrown :
             /\ Catch(e)
             /\ UNCHANGED <<toolPath, cacheHit, downloadUrl>>
    /\ UNCHANGED <<env, release, cache, PATH, platformInfo, version, outputs,
                   unverified>>

\* run(): let toolPath = tc.find(TOOL_NAME, version); if (toolPath) ... else
\* downloadUrl = getDownloadUrl(version, platformInfo)
CacheFind ==
    /\ pc = "versionResolved"
    /\ Logged("find", <<TOOL_NAME>> \o version)
    /\ \/ /\ version \in DOMAIN cache
          /\ toolPath' = cache[version]
          /\ cacheHit' = TRUE
          /\ pc' = "installed"
          /\ UNCHANGED <<downloadUrl, failed>>
       \/ /\ version \notin DOMAIN cache
          /\ downloadUrl' = getDownloadUrl(version, platformInfo)
          /\ pc' = "download"
          /\ UNCHANGED <<toolPath, cacheHit, failed>>
       \/ \E e \in Thrown :
             /\ Catch(e)
             /\ UNCHANGED <<toolPath, cacheHit, downloadUrl>>
    /\ UNCHANGED <<env, release, cache, PATH, platformInfo,
                   version, outputs, unverified>>

\* downloadAndExtract(): const downloadPath = await tc.downloadTool(url)
Download ==
    /\ pc = "download"
    /\ Logged("downloadTool", downloadUrl)
    /\ \/ /\ pc' = "extract"
          /\ UNCHANGED failed
       \/ \E e \in Thrown : Catch(e)
    /\ UNCHANGED <<env, release, cache, PATH, platformInfo,
                   version, toolPath, cacheHit, downloadUrl, outputs, unverified>>

\* downloadAndExtract(): extractZip for 'zip', extractTar otherwise
Extract ==
    /\ pc = "extract"
    /\ Logged(IF platformInfo.ext = "zip" THEN "extractZip" ELSE "extractTar",
              <<"download/">> \o downloadUrl)
    /\ \/ /\ pc' = "cacheDir"
          /\ UNCHANGED failed
       \/ \E e \in Thrown : Catch(e)
    /\ UNCHANGED <<env, release, cache, PATH, platformInfo,
                   version, toolPath, cacheHit, downloadUrl, outputs, unverified>>

\* the cache write keyed by the input instead of the resolved version
CacheDir_InputKey ==
    /\ pc = "cacheDir"
    /\ Logged("cacheDir", <<TOOL_NAME>> \o versionInput)
    /\ \/ /\ cache' = [k \in DOMAIN cache \cup {versionInput} |->
                          IF k = versionInput
                          THEN CachedPath(TOOL_NAME, versionInput)
                          ELSE cache[k]]
          /\ toolPath' = CachedPath(TOOL_NAME, versionInput)
          /\ pc' = "installed"
          /\ UNCHANGED failed
       \/ \E e \in Thrown :
             /\ Catch(e)
             /\ UNCHANGED <<cache, toolPath>>
    /\ UNCHANGED <<env, release, PATH, platformInfo, version, cacheHit,
                   downloadUrl, outputs, unverified>>

\* downloadAndExtract(): cachedPath = await tc.cacheDir(extractedPath,
\* TOOL_NAME, version); run(): toolPath = cachedPath
CacheDir ==
    /\ pc = "cacheDir"
    /\ Logged("cacheDir", <<TOOL_NAME>> \o version)
    /\ \/ /\ cache' = [k \in DOMAIN cache \cup {version} |->
                          IF k = version THEN CachedPath(TOOL_NAME, version)
                                         ELSE cache[k]]
          /\ toolPath' = CachedPath(TOOL_NAME, version)
          /\ pc' = "installed"
          /\ UNCHANGED failed
       \/ \E e \in Thrown :
             /\ Catch(e)
             /\ UNCHANGED <<cache, toolPath>>
    /\ UNCHANGED <<env, release, PATH, platformInfo,
                   version, cacheHit, downloadUrl, outputs, unverified>>

\* run(): core.addPath(toolPath)
AddPath ==
    /\ pc = "installed"
    /\ Logged("addPath", toolPath)
    /\ \/ /\ PATH' = PATH \cup {toolPath}
          /\ pc' = "pathPublished"
          /\ UNCHANGED failed
       \/ \E e \in Thrown :
             /\ Catch(e)
             /\ UNCHANGED PATH
    /\ UNCHANGED <<env, release, cache, platformInfo,
                   version, toolPath, cacheHit, downloadUrl, outputs, unverified>>

\* the verification that removes the cache entry of a failed install
verifyInstallation_Cleanup ==
    /\ pc = "pathPublished"
    /\ Logged("exec", <<"task", "--version">>)
    /\ \/ /\ pc' = "verified"
          /\ UNCHANGED <<failed, unverified, cache>>
       \/ /\ \E e \in Thrown : Catch(e)
          /\ unverified' = (IF cacheHit THEN unverified
                                        ELSE unverified \cup {version})
          /\ cache' = [k \in DOMAIN cache \ {version} |-> cache[k]]
    /\ UNCHANGED <<env, release, PATH, platformInfo, version, toolPath,
                   cacheHit, downloadUrl, outputs>>

\* verifyInstallation(): await exec.exec('task', ['--version'], ...)
verifyInstallation ==
    /\ pc = "pathPublished"
    /\ Logged("exec", <<"task", "--version">>)
    /\ \/ /\ pc' = "verified"
          /\ UNCHANGED <<failed, unverified>>
       \/ /\ \E e \in Thrown : Catch(e)
          /\ unverified' = (IF cacheHit THEN unverified
                                        ELSE unverified \cup {version})
    /\ UNCHANGED <<env, release, cache, PATH, platformInfo, version, toolPath,
                   cacheHit, downloadUrl, outputs>>

\* run(): core.setOutput('version', version)
SetOutputVersion ==
    /\ pc = "verified"
    /\ outputs' = [n \in DOMAIN outputs \cup {"version"} |->
                      IF n = "version" THEN version ELSE outputs[n]]
    /\ pc' = "versionOutput"
    /\ UNCHANGED <<env, release, cache, PATH, platformInfo, version, toolPath,
                   cacheHit, downloadUrl, log, failed, unverified>>

\* run(): core.setOutput('cache-hit', cacheHit.toString())
SetOutputCacheHit ==
    /\ pc = "versionOutput"
    /\ outputs' = [n \in DOMAIN outputs \cup {"cache-hit"} |->
                      IF n = "cache-hit" THEN <<BoolToString(cacheHit)>>
                                         ELSE outputs[n]]
    /\ pc' = "succeeded"
    /\ UNCHANGED <<env, release, cache, PATH, platformInfo, version, toolPath,
                   cacheHit, downloadUrl, log, failed, unverified>>

Next ==
    \/ StartRun
    \/ ResolvePlatform
    \/ ResolveExplicit
    \/ ResolveLatest
    \/ CacheFind
    \/ Download
    \/ Extract
    \/ CacheDir
    \/ AddPath
    \/ verifyInstallation
    \/ SetOutputVersion
    \/ SetOutputCacheHit

Spec == Init /\ [][Next]_vars

\* ------------------------------------------------------------ type check
TypeOK ==
    /\ pc \in {"idle", "start", "platformResolved", "versionResolved",
               "download", "extract", "cacheDir", "installed",
               "pathPublished", "verified", "versionOutput", "succeeded",
               "failed"}
    /\ runs \in 0..MaxRuns
    /\ cacheHit \in BOOLEAN
    /\ Len(failed) <= 1

\* ----------------------------------------------------- claim vocabulary
\* the names of the collaborator calls of the current run, in order
Ops == [i \in 1..Len(log) |-> log[i].op]

Count(op) == Cardinality({i \in 1..Len(log) : log[i].op = op})

Extractions == Count("extractZip") + Count("extractTar")

Ended == pc \in {"succeeded", "failed"}

BothOutputs == {"version", "cache-hit"}

SupportedPlatforms == {"linux", "darwin", "win32", "freebsd"}
SupportedArchs == {"x64", "arm64", "arm", "ia32"}

HostSupported == hostPlatform \in SupportedPlatforms /\ hostArch \in SupportedArchs

\* "latest" compared case-insensitively, character by character
SaysLatest(s) ==
    /\ Len(s) = 6
    /\ s[1] \in {"l", "L"} /\ s[2] \in {"a", "A"} /\ s[3] \in {"t", "T"}
    /\ s[4] \in {"e", "E"} /\ s[5] \in {"s", "S"} /\ s[6] \in {"t", "T"}

\* the run asked for the latest release: the input is absent or says "latest"
AskedLatest == rawVersion = <<>> \/ SaysLatest(rawVersion)

\* the run has a resolved version
Resolved ==
    \/ pc \in {"versionResolved", "download", "extract", "cacheDir", "installed",
               "pathPublished", "verified", "versionOutput", "succeeded"}
    \/ pc = "failed" /\ Count("find") = 1

StartsWithV(s) == Len(s) > 0 /\ s[1] = "v"

\* s without its first character when that is "v", else s
WithoutOneV(s) == IF StartsWithV(s) THEN SubSeq(s, 2, Len(s)) ELSE s

IsPrefix(s, t) == Len(s) <= Len(t) /\ \A i \in 1..Len(s) : s[i] = t[i]

\* the key ("task", v) as the cache collaborator receives it
Key(v) == <<"task">> \o v

\* the documented URL for version v on the host
DocumentedUrl(v) ==
    LET o == CASE hostPlatform = "linux" -> "linux"
               [] hostPlatform = "darwin" -> "darwin"
               [] hostPlatform = "win32" -> "windows"
               [] hostPlatform = "freebsd" -> "freebsd"
        a == CASE hostArch = "x64" -> "amd64"
               [] hostArch = "arm64" -> "arm64"
               [] hostArch = "arm" -> "arm"
               [] hostArch = "ia32" -> "386"
        e == IF hostPlatform = "win32" THEN "zip" ELSE "tar.gz"
    IN  <<"https://github.com/", "go-task", "/", "task", "/releases/download/v">>
            \o v \o <<"/task_", o, "_", a, ".", e>>

\* the arguments of the calls of one kind in the current run
Args(op) == {log[i].arg : i \in {j \in 1..Len(log) : log[j].op = op}}

C2_UnsupportedFailsFirst ==
    ~HostSupported =>
        /\ pc \in {"idle", "start", "failed"}
        /\ log = <<>>
        /\ DOMAIN cache = {}
        /\ PATH = {}
        /\ pc = "failed" =>
              failed = << IF hostPlatform \notin SupportedPlatforms
                          THEN <<"Unsupported platform: ", hostPlatform>>
                          ELSE <<"Unsupported architecture: ", hostArch>> >>

C2_Witness_UnsupportedArchLatest ==
    /\ hostPlatform = "linux"
    /\ hostArch = "mips"
    /\ AskedLatest
    /\ pc = "failed"
    /\ failed = << <<"Unsupported architecture: ", "mips">> >>

\* ------------------------------------------------------------------ C3
\* the lookup of this run returned, and the entry it looked for was there:
\* the run itself has written nothing, and entries are never removed
HeldAtLookup ==
    /\ Count("find") = 1
    /\ ~(pc = "failed" /\ log[Len(log)].op = "find")
    /\ Count("cacheDir") = 0
    /\ version \in DOMAIN cache

\* C3: when the cache holds the entry for ("task", version) at the lookup,
\* the run makes no download, no extraction and no cache write, the only
\* directory it publishes to PATH is the cached one, and a successful run
\* reports cache-hit = "true".
C3_CacheHitPath ==
    HeldAtLookup =>
        /\ cacheHit
        /\ toolPath = cache[version]
        /\ Count("downloadTool") = 0
        /\ Extractions = 0
        /\ downloadUrl = <<>>
        /\ Args("addPath") \subseteq {cache[version]}
        /\ pc \in {"pathPublished", "verified", "versionOutput", "succeeded"} =>
              /\ Count("addPath") = 1
              /\ cache[version] \in PATH
        /\ pc = "succeeded" => outputs["cache-hit"] = <<"true">>

C3_Witness_HitSucceeded ==
    /\ HeldAtLookup
    /\ pc = "succeeded"
    /\ Ops = <<"find", "addPath", "exec">>
    /\ outputs["cache-hit"] = <<"true">>

\* ------------------------------------------------------------------ C4
\* the run got past the installer after a miss
InstalledAfterMiss ==
    /\ ~cacheHit
    /\ \/ pc \in {"installed", "pathPublished", "verified", "versionOutput",
                  "succeeded"}
       \/ pc = "failed" /\ Count("addPath") = 1

\* the calls of a run from the lookup on (the registry call, if any, removed)
FromLookup == IF Len(Ops) > 0 /\ Ops[1] = "getLatestRelease" THEN Tail(Ops) ELSE Ops

\* C4: after a miss with no failing step the run has made exactly one
\* download, then one extraction, then one cache write, in that order; the
\* write used the key that was looked up and is the only write of the run;
\* the entry is then in the cache, entries are never removed or changed,
\* and a run that finds its version in the cache reports cache-hit "true".
C4_CacheMissPath ==
    /\ [](InstalledAfterMiss =>
            /\ IsPrefix(<<"find", "downloadTool",
                          IF hostPlatform = "win32" THEN "extractZip" ELSE "extractTar",
                          "cacheDir">>, FromLookup)
            /\ Count("downloadTool") = 1 /\ Extractions = 1 /\ Count("cacheDir") = 1
            /\ Args("cacheDir") = Args("find")
            /\ Args("find") = {Key(version)}
            /\ version \in DOMAIN cache)
    /\ [](Count("cacheDir") <= 1 /\ Args("cacheDir") \subseteq {Key(version)})
    /\ [][/\ \A k \in DOMAIN cache : k \in DOMAIN cache' /\ cache'[k] = cache[k]
          /\ DOMAIN cache' \subseteq DOMAIN cache \cup {version}
          /\ DOMAIN cache' # DOMAIN cache =>
                /\ version' = version
                /\ log' = Append(log, Call("cacheDir", Key(version)))]_vars
    /\ [](pc = "succeeded" /\ Count("cacheDir") = 0 /\ version \in DOMAIN cache
            => outputs["cache-hit"] = <<"true">>)

C4_Witness_MissThenWritten ==
    /\ pc = "succeeded"
    /\ FromLookup = <<"find", "downloadTool", "extractTar", "cacheDir", "addPath", "exec">>
    /\ version \in DOMAIN cache
    /\ outputs["cache-hit"] = <<"false">>

\* ------------------------------------------------------------------ C5
\* C5 as stated: at most one registry call and one download per run, and
\* a finished run has called the registry exactly once if and only if its
\* input asked for the latest release.
C5_Original_RegistryIffLatest ==
    /\ Count("getLatestRelease") <= 1
    /\ Count("downloadTool") <= 1
    /\ Ended => (Count("getLatestRelease") = 1 <=> AskedLatest)

\* C5 amended: at most one registry call and one download per run; the
\* registry is called only when the input asked for the latest release, so
\* a run with an explicit version makes no call carrying the token; and a
\* finished run that asked for the latest release on a supported host with
\* a non-empty token has called the registry exactly once.
C5_RegistryOnlyForLatest ==
    /\ Count("getLatestRelease") <= 1
    /\ Count("downloadTool") <= 1
    /\ Count("getLatestRelease") = 1 => AskedLatest
    /\ ~AskedLatest => \A i \in 1..Len(log) : \A j \in 1..Len(log[i].arg) :
                          log[i].arg[j] # token
    /\ Ended /\ AskedLatest /\ HostSupported /\ token # "" =>
          Count("getLatestRelease") = 1

C5_Witness_UpperCaseLatest ==
    /\ rawVersion = <<"L", "A", "T", "E", "S", "T">>
    /\ Ended
    /\ Count("getLatestRelease") = 1

\* ------------------------------------------------------------------ C6
\* the string the resolver worked on: the release tag or the input
Requested == IF AskedLatest THEN release ELSE rawVersion

\* the resolved version is the one used in the calls made so far
UsedVerbatim(v) ==
    /\ Args("find") \subseteq {Key(v)}
    /\ Args("cacheDir") \subseteq {Key(v)}
    /\ Args("downloadTool") \subseteq {DocumentedUrl(v)}
    /\ "version" \in DOMAIN outputs => outputs["version"] = v

\* C6 as stated: whenever a run has a resolved version, it is non-empty
\* and does not start with "v".
C6_Original_NonEmptyNoLeadingV ==
    Resolved => version # <<>> /\ ~StartsWithV(version)

\* C6 amended: the resolved version is the input (or the release tag)
\* with one leading "v" removed if there is one, and unchanged otherwise;
\* it is non-empty and has no leading "v" unless the input or tag is "v"
\* alone or starts with "vv"; that string is the one used as cache key, in
\* the download URL and as the 'version' output.
C6_OneLeadingVRemoved ==
    Resolved =>
        /\ version = WithoutOneV(Requested)
        /\ (Requested # <<"v">> /\ ~StartsWithV(WithoutOneV(Requested)))
              => (version # <<>> /\ ~StartsWithV(version))
        /\ UsedVerbatim(version)

C6_Witness_DoubleV ==
    /\ rawVersion = <<"v", "v", "1">>
    /\ pc = "succeeded"
    /\ version = <<"v", "1">>
    /\ outputs["version"] = <<"v", "1">>

\* ------------------------------------------------------------------ C7
\* the strings x for which the two inputs x and "v" x are compared
BareVersions == {x \in VersionInputs : ~StartsWithV(x)}

\* a run whose input is x or "v" followed by x resolves to x and uses x
ResolvesTo(x) ==
    (Resolved /\ rawVersion \in {x, <<"v">> \o x}) =>
        /\ version = x
        /\ UsedVerbatim(x)

\* C7 as stated: for every x that does not start with "v", the inputs x
\* and "v" followed by x both resolve to x.
C7_Original_BareAndPrefixedEquivalent ==
    \A x \in BareVersions : ResolvesTo(x)

\* C7 amended: for every non-empty x that does not start with "v" and is
\* not "latest" in any letter case, the inputs x and "v" followed by x both
\* resolve to x, and both runs use x as cache key, in the download URL and
\* as the 'version' output.
C7_BareAndPrefixedEquivalent ==
    \A x \in BareVersions : (x # <<>> /\ ~SaysLatest(x)) => ResolvesTo(x)

C7_Witness_PrefixedDownloaded ==
    /\ rawVersion = <<"v", "1">>
    /\ version = <<"1">>
    /\ pc = "succeeded"
    /\ Count("downloadTool") = 1

\* ------------------------------------------------------------------ C8
\* C8: on every supported host, the URL downloaded on a miss is the
\* documented one for the host and the resolved version, and that version
\* is the one the cache was asked for.
C8_DownloadUrl ==
    /\ Count("downloadTool") > 0 =>
          /\ HostSupported
          /\ Args("downloadTool") = {DocumentedUrl(version)}
          /\ Args("find") = {Key(version)}
    /\ pc \in {"download", "extract", "cacheDir"} => downloadUrl = DocumentedUrl(version)

C8_Witness_WindowsZip ==
    /\ hostPlatform = "win32"
    /\ hostArch = "ia32"
    /\ version = <<"1">>
    /\ Args("downloadTool") =
          { <<"https://github.com/", "go-task", "/", "task", "/releases/download/v",
              "1", "/task_", "windows", "_", "386", ".", "zip">> }

\* ------------------------------------------------------------------ C9
\* the calls of a complete run, for an installer that hit or missed
Canonical(hit) ==
    (IF AskedLatest THEN <<"getLatestRelease">> ELSE <<>>)
        \o <<"find">>
        \o (IF hit THEN <<>>
            ELSE <<"downloadTool",
                   IF hostPlatform = "win32" THEN "extractZip" ELSE "extractTar",
                   "cacheDir">>)
        \o <<"addPath", "exec">>

\* the calls a run has made when it stands at a position without failing
CallsAt(position) ==
    LET all == Canonical(cacheHit)
        upTo(op) == SubSeq(all, 1, CHOOSE i \in 1..Len(all) : all[i] = op)
    IN  CASE position \in {"idle", "start", "platformResolved"} -> <<>>
          [] position = "versionResolved" ->
                IF AskedLatest THEN <<"getLatestRelease">> ELSE <<>>
          [] position = "download" -> upTo("find")
          [] position = "extract" -> upTo("downloadTool")
          [] position = "cacheDir" ->
                upTo(IF hostPlatform = "win32" THEN "extractZip" ELSE "extractTar")
          [] position = "installed" -> upTo(IF cacheHit THEN "find" ELSE "cacheDir")
          [] position = "pathPublished" -> upTo("addPath")
          [] position \in {"verified", "versionOutput", "succeeded"} -> all

\* the states of the orchestrator, in order (the installer's steps between
\* VersionResolved and Installed included)
Rank(position) ==
    CASE position = "start" -> 0
      [] position = "platformResolved" -> 1
      [] position = "versionResolved" -> 2
      [] position = "download" -> 3
      [] position = "extract" -> 4
      [] position = "cacheDir" -> 5
      [] position = "installed" -> 6
      [] position = "pathPublished" -> 7
      [] position = "verified" -> 8
      [] position = "versionOutput" -> 9
      [] position = "succeeded" -> 10

\* a step of a run, as opposed to the start of a new run
RunStep ==
    \/ ResolvePlatform \/ ResolveExplicit \/ ResolveLatest \/ CacheFind
    \/ Download \/ Extract \/ CacheDir \/ AddPath \/ verifyInstallation
    \/ SetOutputVersion \/ SetOutputCacheHit

\* C9: a run moves through Start, PlatformResolved, VersionResolved,
\* Installed, PathPublished, Verified, Succeeded in that order, one state
\* at a time (only a cache hit passes over the download, extraction and
\* cache write), or from any of them directly to Failed; the calls made so
\* far are exactly those of the states passed; a failed run has made a
\* prefix of the calls and nothing after the failing one (a failed registry
\* query is its only call); a run that has ended takes no further step and
\* a run that has not ended can take one.
C9_LinearStateMachine ==
    /\ [](pc # "failed" => Ops = CallsAt(pc))
    /\ [](pc = "failed" =>
            /\ \E hit \in BOOLEAN : IsPrefix(Ops, Canonical(hit))
            /\ Len(failed) = 1
            /\ (Len(log) > 0 /\ log[Len(log)].op = "getLatestRelease")
                  => (Len(log) = 1 /\ downloadUrl = <<>> /\ toolPath = <<>>))
    /\ [](pc \in {"idle", "succeeded", "failed"} <=> ~ENABLED RunStep)
    /\ [][\/ pc' = "start" /\ pc \in {"idle", "succeeded", "failed"}
             /\ cache' = cache /\ PATH' = PATH
          \/ pc' = "failed" /\ pc \notin {"idle", "succeeded", "failed"}
             /\ PATH' = PATH /\ cache' = cache /\ outputs' = outputs
          \/ /\ pc \notin {"idle", "succeeded", "failed"}
             /\ pc' \notin {"idle", "start", "failed"}
             /\ \/ Rank(pc') = Rank(pc) + 1
                \/ pc = "versionResolved" /\ pc' = "installed" /\ cacheHit'
             /\ PATH' # PATH => pc = "installed" /\ toolPath # <<>> /\ PATH' = PATH \cup {toolPath}
             /\ outputs' # outputs => pc \in {"verified", "versionOutput"}]_vars

C9_Witness_FailedRegistryQuery ==
    /\ pc = "failed"
    /\ Ops = <<"getLatestRelease">>
    /\ failed[1][1] = "Failed to fetch latest version: "
    /\ PATH = {}

\* ----------------------------------------------------------------- C10
\* C10: when a run writes the cache entry and publishes PATH after a miss
\* and then fails at verification, it reports failure with no outputs
\* while the entry and the PATH directory stay, also through later runs;
\* every later run that resolves to that version and whose lookup returns
\* takes the hit path, downloads nothing, and reports cache-hit = "true"
\* if it succeeds.
C10_NoRollback ==
    /\ (pc = "failed" /\ ~cacheHit /\ Count("exec") = 1) =>
          /\ version \in unverified
          /\ DOMAIN outputs = {}
          /\ Len(failed) = 1
    /\ \A k \in unverified :
          /\ k \in DOMAIN cache
          /\ cache[k] = <<"toolcache/", "task", "/">> \o k
          /\ cache[k] \in PATH
    /\ (version \in unverified /\ Count("cacheDir") = 0 /\ Count("find") = 1
            /\ ~(pc = "failed" /\ log[Len(log)].op = "find")) =>
          /\ cacheHit
          /\ Count("downloadTool") = 0
          /\ Extractions = 0
          /\ pc = "succeeded" => outputs["cache-hit"] = <<"true">>

C10_Witness_LaterRunHits ==
    /\ version \in unverified
    /\ Count("cacheDir") = 0
    /\ pc = "succeeded"
    /\ outputs["cache-hit"] = <<"true">>

====
